---- MODULE Spec2Model ----
(***************************************************************************)
(* Model of the incremental streaming structured-output parser of          *)
(* StreamShape:                                                            *)
(*   src/src/streamshape/streaming_structured_output_parser/               *)
(*       parse_llm_output.py                                               *)
(* Text is modelled by TLA+ strings (Len, Head, Tail, SubSeq and \o apply  *)
(* to them), JSON values by trees of uniform records.                      *)
(***************************************************************************)
EXTENDS Integers, Sequences, FiniteSets, TLC

(***************************************************************************)
(* JSON values.  Every value is a record with the same four fields so that *)
(* any two values can be compared: t is the JSON type, n the value of a    *)
(* number, s the characters of a string (or the key of an object member),  *)
(* kids the elements of an array, the members of an object or the value of *)
(* a member.  Python's None is the JSON null.                              *)
(***************************************************************************)
Null == [t |-> "null", n |-> 0, s |-> "", kids |-> <<>>]

JTrue == [t |-> "true", n |-> 0, s |-> "", kids |-> <<>>]

JFalse == [t |-> "false", n |-> 0, s |-> "", kids |-> <<>>]

Num(k) == [t |-> "num", n |-> k, s |-> "", kids |-> <<>>]

Str(x) == [t |-> "str", n |-> 0, s |-> x, kids |-> <<>>]

Arr(items) == [t |-> "arr", n |-> 0, s |-> "", kids |-> items]

Pair(k, v) == [t |-> "pair", n |-> 0, s |-> k, kids |-> <<v>>]

Obj(pairs) == [t |-> "obj", n |-> 0, s |-> "", kids |-> pairs]

\* Python truth value of a decoded JSON value (`if not event`, `if not choices`).
Truthy(v) ==
    CASE v.t = "null" -> FALSE
      [] v.t = "false" -> FALSE
      [] v.t = "true" -> TRUE
      [] v.t = "num" -> v.n # 0
      [] v.t = "str" -> v.s # ""
      [] OTHER -> v.kids # <<>>

\* `key in d` for a dict d.
HasKey(d, key) == \E i \in 1..Len(d.kids) : d.kids[i].s = key

\* d.get(key): the member's value, None when the key is missing.
Get(d, key) ==
    IF HasKey(d, key)
    THEN d.kids[CHOOSE i \in 1..Len(d.kids) : d.kids[i].s = key].kids[1]
    ELSE Null

\* d[key] = v as the decoder builds a dict: a repeated key keeps its place
\* and takes the later value.
SetKey(pairs, key, v) ==
    IF \E i \in 1..Len(pairs) : pairs[i].s = key
    THEN [i \in 1..Len(pairs) |-> IF pairs[i].s = key THEN Pair(key, v) ELSE pairs[i]]
    ELSE Append(pairs, Pair(key, v))

(***************************************************************************)
(* Characters and whitespace.                                              *)
(***************************************************************************)
Quote == "\""

Backslash == "\\"

Whitespace == {" ", "\t", "\n", "\r"}

DigitChars == "0123456789"

Digits == {SubSeq(DigitChars, d, d) : d \in 1..10}

DigitVal(c) == (CHOOSE d \in 1..10 : SubSeq(DigitChars, d, d) = c) - 1

\* s[i:i+1]: the character at 1-based position i, "" past either end.
Ch(s, i) == IF i >= 1 /\ i <= Len(s) THEN SubSeq(s, i, i) ELSE ""

\* s[i:], 1-based.
From(s, i) == SubSeq(s, i, Len(s))

StartsWith(s, p) == Len(s) >= Len(p) /\ SubSeq(s, 1, Len(p)) = p

RECURSIVE SkipWs(_, _)
\* WHITESPACE.match(s, i).end(): the first position at or after i that holds
\* no whitespace.
SkipWs(s, i) == IF Ch(s, i) \in Whitespace THEN SkipWs(s, i + 1) ELSE i

\* str.lstrip()
LStrip(s) == From(s, SkipWs(s, 1))

RECURSIVE Find(_, _, _)
\* str.find(c) from position i: the 1-based position of the first c, 0 when
\* there is none (Python's -1).
Find(s, c, i) ==
    IF i > Len(s) THEN 0
    ELSE IF Ch(s, i) = c THEN i
    ELSE Find(s, c, i + 1)

(***************************************************************************)
(* json.JSONDecoder: scan_once / raw_decode / json.loads, restricted to    *)
(* the JSON the model's inputs use: objects, arrays, strings with the      *)
(* escapes \" \\ \/ \n \r \t, unsigned integers, true, false and null.     *)
(* (No '-', '.', 'e', 'E', NaN or Infinity occurs in any modelled text.)   *)
(* A result is [ok, val, end]: end is the 1-based position after the       *)
(* value; ok = FALSE stands for json.JSONDecodeError.                      *)
(***************************************************************************)
Fail == [ok |-> FALSE, val |-> Null, end |-> 0]

Ok(v, e) == [ok |-> TRUE, val |-> v, end |-> e]

Unescape(e) ==
    CASE e = "n" -> "\n"
      [] e = "r" -> "\r"
      [] e = "t" -> "\t"
      [] OTHER -> e

RECURSIVE ScanString(_, _, _)
\* scanstring(s, i): i is the position after the opening quote.
ScanString(s, i, acc) ==
    LET c == Ch(s, i) IN
    IF c = "" THEN Fail
    ELSE IF c = Quote THEN Ok(Str(acc), i + 1)
    ELSE IF c = Backslash
         THEN IF Ch(s, i + 1) \in {Quote, Backslash, "/", "n", "r", "t"}
              THEN ScanString(s, i + 2, acc \o Unescape(Ch(s, i + 1)))
              ELSE Fail
    ELSE IF c \in {"\t", "\n", "\r"} THEN Fail
    ELSE ScanString(s, i + 1, acc \o c)

RECURSIVE ScanDigits(_, _, _)
ScanDigits(s, i, acc) ==
    IF Ch(s, i) \in Digits
    THEN ScanDigits(s, i + 1, 10 * acc + DigitVal(Ch(s, i)))
    ELSE Ok(Num(acc), i)

\* NUMBER_RE.match(s, i): (0|[1-9][0-9]*), the longest match at i.
ScanNumber(s, i) ==
    IF Ch(s, i) = "0" THEN Ok(Num(0), i + 1) ELSE ScanDigits(s, i, 0)

RECURSIVE ScanOnce(_, _)
RECURSIVE JSONObjectPairs(_, _, _)
RECURSIVE JSONArrayItems(_, _, _)

\* JSONObject's member loop; i is the position after a key's opening quote.
JSONObjectPairs(s, i, acc) ==
    LET k == ScanString(s, i, "") IN
    IF ~k.ok THEN Fail
    ELSE LET c == SkipWs(s, k.end) IN
    IF Ch(s, c) # ":" THEN Fail
    ELSE LET v == ScanOnce(s, SkipWs(s, c + 1)) IN
    IF ~v.ok THEN Fail
    ELSE LET e == SkipWs(s, v.end)
             acc2 == SetKey(acc, k.val.s, v.val) IN
    IF Ch(s, e) = "}" THEN Ok(Obj(acc2), e + 1)
    ELSE IF Ch(s, e) # "," THEN Fail
    ELSE LET q == SkipWs(s, e + 1) IN
    IF Ch(s, q) # Quote THEN Fail
    ELSE JSONObjectPairs(s, q + 1, acc2)

\* JSONObject(s, i): i is the position after '{'.
JSONObject(s, i) ==
    LET j == SkipWs(s, i) IN
    IF Ch(s, j) = "}" THEN Ok(Obj(<<>>), j + 1)
    ELSE IF Ch(s, j) # Quote THEN Fail
    ELSE JSONObjectPairs(s, j + 1, <<>>)

\* JSONArray's element loop; i is the position of the next element.
JSONArrayItems(s, i, acc) ==
    LET v == ScanOnce(s, i) IN
    IF ~v.ok THEN Fail
    ELSE LET e == SkipWs(s, v.end)
             acc2 == Append(acc, v.val) IN
    IF Ch(s, e) = "]" THEN Ok(Arr(acc2), e + 1)
    ELSE IF Ch(s, e) # "," THEN Fail
    ELSE JSONArrayItems(s, SkipWs(s, e + 1), acc2)

\* JSONArray(s, i): i is the position after '['.
JSONArray(s, i) ==
    LET j == SkipWs(s, i) IN
    IF Ch(s, j) = "]" THEN Ok(Arr(<<>>), j + 1)
    ELSE JSONArrayItems(s, j, <<>>)

\* scan_once(s, i): one JSON value starting exactly at position i.
ScanOnce(s, i) ==
    LET c == Ch(s, i) IN
    IF c = Quote THEN ScanString(s, i + 1, "")
    ELSE IF c = "{" THEN JSONObject(s, i + 1)
    ELSE IF c = "[" THEN JSONArray(s, i + 1)
    ELSE IF c = "n" /\ StartsWith(From(s, i), "null") THEN Ok(Null, i + 4)
    ELSE IF c = "t" /\ StartsWith(From(s, i), "true") THEN Ok(JTrue, i + 4)
    ELSE IF c = "f" /\ StartsWith(From(s, i), "false") THEN Ok(JFalse, i + 5)
    ELSE IF c \in Digits THEN ScanNumber(s, i)
    ELSE Fail

\* JSONDecoder.raw_decode(s): one value at the very front of s.
raw_decode(s) == ScanOnce(s, 1)

\* json.loads(s): one value surrounded by nothing but whitespace.
json_loads(s) ==
    LET r == ScanOnce(s, SkipWs(s, 1)) IN
    IF r.ok /\ SkipWs(s, r.end) = Len(s) + 1 THEN r ELSE Fail

(***************************************************************************)
(* json.dumps with its default separators ", " and ": ".                   *)
(***************************************************************************)
RECURSIVE IntToStr(_)
IntToStr(k) ==
    IF k < 10 THEN Ch(DigitChars, k + 1)
    ELSE IntToStr(k \div 10) \o Ch(DigitChars, (k % 10) + 1)

RECURSIVE EscapeStr(_)
EscapeStr(x) ==
    IF x = "" THEN ""
    ELSE LET c == Head(x) IN
         (CASE c = Quote -> Backslash \o Quote
            [] c = Backslash -> Backslash \o Backslash
            [] c = "\n" -> Backslash \o "n"
            [] c = "\r" -> Backslash \o "r"
            [] c = "\t" -> Backslash \o "t"
            [] OTHER -> c) \o EscapeStr(Tail(x))

RECURSIVE json_dumps(_)
RECURSIVE DumpsItems(_, _)
DumpsItems(items, isObj) ==
    IF items = <<>> THEN ""
    ELSE LET h == Head(items)
             one == IF isObj
                    THEN Quote \o EscapeStr(h.s) \o Quote \o ": " \o json_dumps(h.kids[1])
                    ELSE json_dumps(h)
         IN IF Len(items) = 1 THEN one
            ELSE one \o ", " \o DumpsItems(Tail(items), isObj)

json_dumps(v) ==
    CASE v.t = "null" -> "null"
      [] v.t = "true" -> "true"
      [] v.t = "false" -> "false"
      [] v.t = "num" -> IntToStr(v.n)
      [] v.t = "str" -> Quote \o EscapeStr(v.s) \o Quote
      [] v.t = "arr" -> "[" \o DumpsItems(v.kids, FALSE) \o "]"
      [] OTHER -> "{" \o DumpsItems(v.kids, TRUE) \o "}"

(***************************************************************************)
(* _TokenBuffer: [buffer, array_started, saw_chunk].                       *)
(***************************************************************************)
NewTokenBuffer == [buffer |-> "", array_started |-> FALSE, saw_chunk |-> FALSE]

RECURSIVE FeedLoop(_, _)
\* The `while True` loop of feed: peel complete values off the front of the
\* buffer.  Returns the buffer state and the values parsed in this call.
FeedLoop(tb, parsed) ==
    LET b1 == LStrip(tb.buffer) IN
    IF b1 = "" THEN [tb |-> [tb EXCEPT !.buffer = b1], parsed |-> parsed]
    ELSE IF StartsWith(b1, "]")
         THEN [tb |-> [tb EXCEPT !.buffer = Tail(b1), !.array_started = FALSE],
               parsed |-> parsed]
    ELSE LET r == raw_decode(b1) IN
         IF ~r.ok THEN [tb |-> [tb EXCEPT !.buffer = b1], parsed |-> parsed]
         ELSE LET b2 == LStrip(From(b1, r.end))
                  b3 == IF StartsWith(b2, ",") THEN Tail(b2) ELSE b2
              IN FeedLoop([tb EXCEPT !.buffer = b3], Append(parsed, r.val))

\* Mutant of feed: with the array open, the characters of the values a call
\* returns stay in the pending text.
feed_keeps_returned(tb, chunk) ==
    IF chunk = "" THEN [tb |-> tb, parsed |-> <<>>]
    ELSE LET t1 == [tb EXCEPT !.saw_chunk = TRUE, !.buffer = tb.buffer \o chunk] IN
         IF ~t1.array_started
         THEN LET start_idx == Find(t1.buffer, "[", 1) IN
              IF start_idx = 0 THEN [tb |-> t1, parsed |-> <<>>]
              ELSE FeedLoop([t1 EXCEPT !.array_started = TRUE,
                                       !.buffer = From(t1.buffer, start_idx + 1)],
                            <<>>)
         ELSE LET r == FeedLoop(t1, <<>>) IN
              [tb |-> IF r.tb.array_started
                      THEN [r.tb EXCEPT !.buffer = t1.buffer] ELSE r.tb,
               parsed |-> r.parsed]

\* Mutant of feed: with the array open, text left pending by an earlier call
\* is dropped when the next chunk arrives.
feed_drops_pending(tb, chunk) ==
    IF chunk = "" THEN [tb |-> tb, parsed |-> <<>>]
    ELSE LET t1 == [tb EXCEPT !.saw_chunk = TRUE,
                              !.buffer = IF tb.array_started THEN chunk
                                         ELSE tb.buffer \o chunk] IN
         IF ~t1.array_started
         THEN LET start_idx == Find(t1.buffer, "[", 1) IN
              IF start_idx = 0 THEN [tb |-> t1, parsed |-> <<>>]
              ELSE FeedLoop([t1 EXCEPT !.array_started = TRUE,
                                       !.buffer = From(t1.buffer, start_idx + 1)],
                            <<>>)
         ELSE FeedLoop(t1, <<>>)

\* Mutant of feed: an empty chunk counts as content.
feed_empty_is_content(tb, chunk) ==
    LET t1 == [tb EXCEPT !.saw_chunk = TRUE, !.buffer = tb.buffer \o chunk] IN
    IF chunk = "" THEN [tb |-> t1, parsed |-> <<>>]
    ELSE IF ~t1.array_started
         THEN LET start_idx == Find(t1.buffer, "[", 1) IN
              IF start_idx = 0 THEN [tb |-> t1, parsed |-> <<>>]
              ELSE FeedLoop([t1 EXCEPT !.array_started = TRUE,
                                       !.buffer = From(t1.buffer, start_idx + 1)],
                            <<>>)
         ELSE FeedLoop(t1, <<>>)

\* Mutant of feed: the opening bracket is left in the buffer.
feed_keeps_bracket(tb, chunk) ==
    IF chunk = "" THEN [tb |-> tb, parsed |-> <<>>]
    ELSE LET t1 == [tb EXCEPT !.saw_chunk = TRUE, !.buffer = tb.buffer \o chunk] IN
         IF ~t1.array_started
         THEN LET start_idx == Find(t1.buffer, "[", 1) IN
              IF start_idx = 0 THEN [tb |-> t1, parsed |-> <<>>]
              ELSE FeedLoop([t1 EXCEPT !.array_started = TRUE,
                                       !.buffer = From(t1.buffer, start_idx)],
                            <<>>)
         ELSE FeedLoop(t1, <<>>)

\* _TokenBuffer.feed(chunk)
feed(tb, chunk) ==
    IF chunk = "" THEN [tb |-> tb, parsed |-> <<>>]
    ELSE LET t1 == [tb EXCEPT !.saw_chunk = TRUE, !.buffer = tb.buffer \o chunk] IN
         IF ~t1.array_started
         THEN LET start_idx == Find(t1.buffer, "[", 1) IN
              IF start_idx = 0 THEN [tb |-> t1, parsed |-> <<>>]
              ELSE FeedLoop([t1 EXCEPT !.array_started = TRUE,
                                       !.buffer = From(t1.buffer, start_idx + 1)],
                            <<>>)
         ELSE FeedLoop(t1, <<>>)

\* _TokenBuffer.saw_content()
saw_content(tb) == tb.saw_chunk

(***************************************************************************)
(* _SSEEventParser.                                                        *)
(***************************************************************************)
DATA_PREFIX == "data: "

DoneToken == "[DONE]"

\* Mutant of parse_line: the payload is not compared with the terminal
\* marker.
parse_line_no_marker(line) ==
    IF ~StartsWith(line, DATA_PREFIX) THEN [event |-> <<>>, finished |-> FALSE]
    ELSE LET payload == From(line, Len(DATA_PREFIX) + 1) IN
         LET r == json_loads(payload) IN
         IF r.ok THEN [event |-> <<r.val>>, finished |-> FALSE]
         ELSE [event |-> <<>>, finished |-> FALSE]

\* Mutant of parse_line: a payload that is not parsable JSON ends the stream
\* like the terminal marker.
parse_line_abort(line) ==
    IF ~StartsWith(line, DATA_PREFIX) THEN [event |-> <<>>, finished |-> FALSE]
    ELSE LET payload == From(line, Len(DATA_PREFIX) + 1) IN
         IF payload = DoneToken THEN [event |-> <<>>, finished |-> TRUE]
         ELSE LET r == json_loads(payload) IN
              IF r.ok THEN [event |-> <<r.val>>, finished |-> FALSE]
              ELSE [event |-> <<>>, finished |-> TRUE]

\* parse_line(line): [event, finished]; event is <<>> for None, <<v>> for a
\* decoded payload v.
parse_line(line) ==
    IF ~StartsWith(line, DATA_PREFIX) THEN [event |-> <<>>, finished |-> FALSE]
    ELSE LET payload == From(line, Len(DATA_PREFIX) + 1) IN
         IF payload = DoneToken THEN [event |-> <<>>, finished |-> TRUE]
         ELSE LET r == json_loads(payload) IN
              IF r.ok THEN [event |-> <<r.val>>, finished |-> FALSE]
              ELSE [event |-> <<>>, finished |-> FALSE]

\* Mutant of IsDict: every value answers `in` and .get like a dict.
IsDict_any(v) == TRUE

\* Whether x.get(...) is defined: only a dict has .get (AttributeError
\* otherwise).
IsDict(v) == v.t = "obj"

\* Mutant of content_from_event: the content is taken from the last choice.
content_from_event_last_choice(event) ==
    LET none == [raises |-> FALSE, content |-> <<>>]
        boom == [raises |-> TRUE, content |-> <<>>]
    IN
    IF ~IsDict(event) THEN boom
    ELSE LET choices == Get(event, "choices") IN
    IF ~Truthy(choices) THEN none
    ELSE IF choices.t # "arr" THEN boom
    ELSE LET first_choice == choices.kids[Len(choices.kids)] IN
    IF ~IsDict(first_choice) THEN boom
    ELSE LET delta == Get(first_choice, "delta") IN
    IF ~Truthy(delta) THEN none
    ELSE IF ~IsDict(delta) THEN boom
    ELSE LET content == Get(delta, "content") IN
    IF ~Truthy(content) THEN none
    ELSE [raises |-> FALSE, content |-> <<content>>]

\* content_from_event(event): [raises, content]; content is <<>> for None,
\* <<v>> for the content value returned.  raises stands for the
\* AttributeError / TypeError / KeyError of .get or [0] on a value that has
\* none.
content_from_event(event) ==
    LET none == [raises |-> FALSE, content |-> <<>>]
        boom == [raises |-> TRUE, content |-> <<>>]
    IN
    IF ~IsDict(event) THEN boom
    ELSE LET choices == Get(event, "choices") IN
    IF ~Truthy(choices) THEN none
    ELSE IF choices.t # "arr" THEN boom
    ELSE LET first_choice == choices.kids[1] IN
    IF ~IsDict(first_choice) THEN boom
    ELSE LET delta == Get(first_choice, "delta") IN
    IF ~Truthy(delta) THEN none
    ELSE IF ~IsDict(delta) THEN boom
    ELSE LET content == Get(delta, "content") IN
    IF ~Truthy(content) THEN none
    ELSE [raises |-> FALSE, content |-> <<content>>]

(***************************************************************************)
(* _SchemaValidator, for the target schema {a: int} of the specification's *)
(* Scenario A.  The validated instance is [a |-> n]; <<>> is None.         *)
(* (In the modelled inputs the member "a" is an integer, a non-numeric     *)
(* string or missing.)                                                     *)
(***************************************************************************)
validate(payload) ==
    IF IsDict(payload) /\ HasKey(payload, "a") /\ Get(payload, "a").t = "num"
    THEN <<[a |-> Get(payload, "a").n]>>
    ELSE <<>>

(***************************************************************************)
(* Inputs.                                                                 *)
(***************************************************************************)
\* Largest number of events the raw-event log holds in the model.
MaxEvents == 3

EmptyDict == Obj(<<>>)

UsageOf(k) == Obj(<<Pair("total_tokens", Num(k))>>)

\* {"usage": {"total_tokens": k}}
UsageEvent(k) == Obj(<<Pair("usage", UsageOf(k))>>)

\* A choice {"delta": {"content": c}} with an optional finish_reason.
Choice(c, fin) ==
    IF fin
    THEN Obj(<<Pair("delta", Obj(<<Pair("content", c)>>)), Pair("finish_reason", Str("stop"))>>)
    ELSE Obj(<<Pair("delta", Obj(<<Pair("content", c)>>))>>)

\* {"choices": [{"delta": {"content": c}}]}
ContentEvent(c, fin) == Obj(<<Pair("choices", Arr(<<Choice(c, fin)>>))>>)

\* A choice {"delta": {"content": c}, "finish_reason": null}.
NullFinishChoice(c) ==
    Obj(<<Pair("delta", Obj(<<Pair("content", c)>>)), Pair("finish_reason", Null)>>)

\* An event with a usage member, whose choice has a finish_reason member also
\* when that is null.
ContentUsageEvent(c, fin, k) ==
    Obj(<<Pair("choices", Arr(<<IF fin THEN Choice(c, TRUE) ELSE NullFinishChoice(c)>>)),
          Pair("usage", UsageOf(k))>>)

\* The delta sequences a stream may carry (the content of successive events).
DeltaStreams ==
    { <<>>,
      <<"[{\"a\":1}", "}]">>,
      <<"[{\"a\":1},", "{\"a\":2}]">>,
      <<"[{\"a\":1}", ",{\"a\":2}]">>,
      <<"[{\"a\":1},{\"a\":2}]">>,
      <<"[{\"b\":1},{\"a\":2}]">>,
      <<"[{\"a\"", ":1}]">>,
      <<"[1", "2,{\"a\":3}]">> }

\* Events that carry no delta of the stream.
FixedEvents ==
    { UsageEvent(5), UsageEvent(7),
      Obj(<<Pair("usage", EmptyDict)>>),
      Obj(<<Pair("choices", Arr(<<>>))>>),
      ContentEvent(Num(5), FALSE),
      EmptyDict, Null, Num(7) }

\* Events that carry the next delta d of the stream.
DeltaEvents(d) ==
    { ContentEvent(Str(d), FALSE), ContentEvent(Str(d), TRUE),
      ContentUsageEvent(Str(d), FALSE, 7) }

\* What the transport may still hold when the loop of stream() breaks off:
\* the events of the lines that are never read.
UnreadTails == { <<>>, <<UsageEvent(5)>>, <<UsageEvent(7)>> }

\* Raw lines of the line-based (http) transport that are no event.
PlainLines == { "", " ", ": ping", "data: [DONE]", "data: {\"choices\": [" }

(***************************************************************************)
(* State.                                                                  *)
(***************************************************************************)
VARIABLES
    type,             \* _StreamClient.type: "http" or "openai"
    rest,             \* deltas the provider has not sent yet
    cancel,           \* cancel_event.is_set()
    closes,           \* number of calls of response.close()
    synth,            \* iter_lines is about to yield the synthetic "data: [DONE]"
    tb,               \* _PipelineController._buffer
    usage_data,       \* _PipelineController._usage_data
    raw_chunks,       \* _PipelineController._raw_chunks
    stream_finished,  \* local of stream()
    final_yielded,    \* local of stream()
    pending,          \* validated objects of the current line not yet yielded
    out,              \* records yielded to the caller so far
    pc,               \* "loop": waiting for a line, "emit": yielding, "done"
    how,              \* history: how the line loop ended
    fed,              \* history: concatenation of the content passed to feed
    parsedAll,        \* history: all values returned by feed
    postUsage,        \* history: usage of a usage-bearing event decoded after [DONE]
    anyRaw,           \* history: the transport delivered at least one item
    unread,           \* history: events left in the transport when the loop broke off
    cancelAt,         \* history: <<Len(out), Len(pending), anyRaw>> when the signal was set
    last,             \* history (traced runs): <<line, turn>>, the line the loop body
                      \* handled last and the parity of the number of lines handled
    args,             \* structured_streaming_output: its parameters
    raised,           \* structured_streaming_output: <<message>> of the ValidationError raised
    completions,      \* number of calls of _call_litellm
    parsers,          \* number of calls of parse_streaming_response
    source,           \* the records the parser delivers
    items             \* the items structured_streaming_output has yielded

ctl == <<tb, usage_data, raw_chunks, stream_finished, final_yielded, pending>>

hist == <<fed, parsedAll, postUsage, unread>>

vars == <<type, rest, cancel, closes, synth, tb, usage_data, raw_chunks,
          stream_finished, final_yielded, pending, out, pc, how, fed,
          parsedAll, postUsage, unread, anyRaw, cancelAt, last,
          args, raised, completions, parsers, source, items>>

prov == <<args, raised, completions, parsers, source, items>>

\* No call of structured_streaming_output is in progress.
ProviderIdle ==
    /\ args = <<>>
    /\ raised = <<>>
    /\ completions = 0
    /\ parsers = 0
    /\ source = <<>>
    /\ items = <<>>

(***************************************************************************)
(* ResultRecords.  A key the code leaves out of the dict is <<>>; a        *)
(* present key is <<value>>.  data: <<>> is None.                          *)
(***************************************************************************)
\* Mutant of DataRecord: the record is marked finished.
DataRecord_finished(validated) ==
    [data |-> <<validated>>, usage |-> EmptyDict, finished |-> TRUE,
     raw_chunks |-> <<>>, error |-> <<>>]

DataRecord(validated) ==
    [data |-> <<validated>>, usage |-> EmptyDict, finished |-> FALSE,
     raw_chunks |-> <<>>, error |-> <<>>]

\* Mutant of FinalRecord: the final record carries no usage.
FinalRecord_without_usage(usage, chunks) ==
    [data |-> <<>>, usage |-> EmptyDict, finished |-> TRUE,
     raw_chunks |-> <<chunks>>, error |-> <<>>]

FinalRecord(usage, chunks) ==
    [data |-> <<>>, usage |-> usage, finished |-> TRUE,
     raw_chunks |-> <<chunks>>, error |-> <<>>]

\* Mutant of ErrorRecord: the error record carries the usage snapshot.
ErrorRecord_with_snapshot(chunks) ==
    [data |-> <<>>, usage |-> usage_data, finished |-> TRUE,
     raw_chunks |-> <<chunks>>, error |-> <<"error while generating -> ">>]

\* Mutant of ErrorRecord: the error record carries an empty log.
ErrorRecord_empty_log(chunks) ==
    [data |-> <<>>, usage |-> EmptyDict, finished |-> TRUE,
     raw_chunks |-> <<<<>>>>, error |-> <<"error while generating -> ">>]

ErrorRecord(chunks) ==
    [data |-> <<>>, usage |-> EmptyDict, finished |-> TRUE,
     raw_chunks |-> <<chunks>>, error |-> <<"error while generating -> ">>]

Init ==
    /\ type \in {"http", "openai"}
    /\ rest \in DeltaStreams
    /\ cancel = FALSE
    /\ closes = 0
    /\ synth = FALSE
    /\ tb = NewTokenBuffer
    /\ usage_data = EmptyDict
    /\ raw_chunks = <<>>
    /\ stream_finished = FALSE
    /\ final_yielded = FALSE
    /\ pending = <<>>
    /\ out = <<>>
    /\ pc = "loop"
    /\ how = "run"
    /\ fed = ""
    /\ parsedAll = <<>>
    /\ postUsage = <<>>
    /\ unread = <<>>
    /\ anyRaw = FALSE
    /\ cancelAt = <<>>
    /\ last = <<>>
    /\ ProviderIdle

(***************************************************************************)
(* _PipelineController.stream                                              *)
(***************************************************************************)
RECURSIVE SelectValidated_stop(_)
\* Mutant of SelectValidated: the loop stops at the first candidate that
\* fails validation.
SelectValidated_stop(parsed) ==
    IF parsed = <<>> THEN <<>>
    ELSE IF validate(Head(parsed)) = <<>> THEN <<>>
    ELSE validate(Head(parsed)) \o SelectValidated_stop(Tail(parsed))

RECURSIVE SelectValidated(_)
\* The validated instances of the candidates that pass validation, in order
\* (the loop `for candidate in feed(content)` with its `is not None` test).
SelectValidated(parsed) ==
    IF parsed = <<>> THEN <<>>
    ELSE validate(Head(parsed)) \o SelectValidated(Tail(parsed))

\* Mutant of FinalUsage: the record after the loop always has usage {}.
FinalUsage_empty(u) == EmptyDict

\* usage of the record yielded after the loop: `usage_data if usage_data else {}`.
FinalUsage(u) == IF Truthy(u) THEN u ELSE EmptyDict

\* Mutant of HasUsage: the test is only `"usage" in event`.
HasUsage_key(event) == HasKey(event, "usage")

\* `"usage" in event and event["usage"]` for a dict event.
HasUsage(event) == HasKey(event, "usage") /\ Truthy(Get(event, "usage"))

\* Mutant of yields_final: the final result is never yielded from inside the
\* loop.
yields_final_never(event, finished) == FALSE

\* The test that guards the yield of the final result inside the loop: the
\* event carries non-empty usage and `if stream_finished`.
yields_final(event, finished) == HasUsage(event) /\ finished

\* Mutant of usage_after: a snapshot once taken is kept (first write wins).
usage_after_first(event, snapshot) ==
    IF HasKey(event, "usage") /\ Truthy(Get(event, "usage")) /\ ~Truthy(snapshot)
    THEN Get(event, "usage") ELSE snapshot

\* `self._usage_data = event["usage"]` when the event carries non-empty usage:
\* the snapshot after the event.
usage_after(event, snapshot) ==
    IF HasUsage(event) THEN Get(event, "usage") ELSE snapshot

\* Mutant of after_loop: nothing is yielded after the loop.
after_loop_nothing(o, fy, u, chunks) == o

\* Mutant of after_loop: the end of the loop is reported through the error
\* handler.
after_loop_error(o, fy, u, chunks) ==
    IF ~fy THEN Append(o, ErrorRecord(chunks)) ELSE o

\* Mutant of after_loop: the final record is yielded without the
\* final_yielded test.
after_loop_always(o, fy, u, chunks) ==
    Append(o, [data |-> <<>>, usage |-> u, finished |-> TRUE,
               raw_chunks |-> <<chunks>>, error |-> <<>>])

\* The code after the loop (`if not final_yielded: yield {...}`): the records
\* yielded once the loop has ended with records o yielded before.
after_loop(o, fy, u, chunks) ==
    IF ~fy THEN Append(o, FinalRecord(FinalUsage(u), chunks)) ELSE o

\* The `except Exception` handler: one error-carrying terminal record.  The
\* abandoned iter_lines generator is finalised when the exception leaves the
\* loop, which runs its `finally` and closes the transport.
Errored(chunks, cause) ==
    /\ out' = Append(out, ErrorRecord(chunks))
    /\ closes' = closes + 1
    /\ how' = cause
    /\ pc' = "done"

\* The rest of the loop body for a decoded dict event whose usage did not
\* end the stream: extract the content, feed it, validate the candidates.
ProcessContent(event, chunks) ==
    \E c \in {content_from_event(event)} :
    IF c.raises \/ (c.content # <<>> /\ c.content[1].t # "str")
    THEN \* .get / [0] on a non-dict, or `self._buffer += chunk` on a non-str
         /\ Errored(chunks, "body_error")
         /\ UNCHANGED <<tb, stream_finished, final_yielded, pending, fed, parsedAll>>
    ELSE IF c.content = <<>>
    THEN UNCHANGED <<tb, stream_finished, final_yielded, pending, out, pc,
                     how, closes, fed, parsedAll>>
    ELSE \E r \in {feed(tb, c.content[1].s)} :
         \E validated \in {SelectValidated(r.parsed)} :
         /\ tb' = r.tb
         /\ pending' = validated
         /\ pc' = IF validated = <<>> THEN "loop" ELSE "emit"
         /\ fed' = fed \o c.content[1].s
         /\ parsedAll' = parsedAll \o r.parsed
         /\ UNCHANGED <<stream_finished, final_yielded, out, how, closes>>

\* Mutant of log_append: the event is put at the front of the log.
log_append_front(chunks, event) == <<event>> \o chunks

\* `self._raw_chunks.append(event)`
log_append(chunks, event) == Append(chunks, event)

\* The loop body for a decoded, truthy event.
ProcessEvent(event) ==
    \E chunks \in {log_append(raw_chunks, event)} :
    /\ raw_chunks' = chunks
    /\ IF ~IsDict(event)
       THEN \* `"usage" in event` / event.get raise on a non-dict
            /\ Errored(chunks, "body_error")
            /\ UNCHANGED <<tb, usage_data, stream_finished, final_yielded,
                           pending, hist>>
       ELSE \E usage1 \in {usage_after(event, usage_data)} :
            /\ usage_data' = usage1
            /\ postUsage' = IF HasUsage(event) /\ stream_finished /\ postUsage = <<>>
                            THEN <<Get(event, "usage")>> ELSE postUsage
            /\ IF yields_final(event, stream_finished)
               THEN \* yield the final result, set final_yielded and break: the
                    \* abandoned generator is finalised (its finally closes)
                    \* and the code after the loop runs
                    /\ out' = after_loop(Append(out, FinalRecord(usage1, chunks)),
                                         TRUE, usage1, chunks)
                    /\ final_yielded' = TRUE
                    /\ closes' = closes + 1
                    /\ how' = "usage_after_done"
                    /\ pc' = "done"
                    /\ unread' \in UnreadTails
                    /\ UNCHANGED <<tb, stream_finished, pending, fed, parsedAll>>
               ELSE ProcessContent(event, chunks) /\ UNCHANGED unread

\* Mutant of ProcessLine: only None is skipped (`if event is None`).
ProcessLine_skips_none_only(line) ==
    \E pl \in {parse_line(line)} :
    IF pl.finished
    THEN /\ stream_finished' = TRUE
         /\ UNCHANGED <<tb, usage_data, raw_chunks, final_yielded, pending,
                        out, pc, how, closes, hist>>
    ELSE IF pl.event = <<>>
    THEN UNCHANGED <<ctl, out, pc, how, closes, hist>>
    ELSE \E event \in {pl.event[1]} : ProcessEvent(event)

\* The body of the for loop for one line.
ProcessLine(line) ==
    \E pl \in {parse_line(line)} :
    IF pl.finished
    THEN /\ stream_finished' = TRUE
         /\ UNCHANGED <<tb, usage_data, raw_chunks, final_yielded, pending,
                        out, pc, how, closes, hist>>
    ELSE IF pl.event = <<>> \/ ~Truthy(pl.event[1])
    THEN UNCHANGED <<ctl, out, pc, how, closes, hist>>
    ELSE \E event \in {pl.event[1]} : ProcessEvent(event)

\* The line loop ends without a break: nclose calls of close, then the code
\* after the loop.
AfterLoop(cause, nclose) ==
    /\ out' = after_loop(out, final_yielded, usage_data, raw_chunks)
    /\ closes' = closes + nclose
    /\ how' = cause
    /\ pc' = "done"
    /\ UNCHANGED <<ctl, hist>>

\* `yield {"data": validated, "usage": {}, "finished": False}`
EmitRecord ==
    /\ pc = "emit"
    /\ out' = Append(out, DataRecord(Head(pending)))
    /\ pending' = Tail(pending)
    /\ pc' = IF Tail(pending) = <<>> THEN "loop" ELSE "emit"
    /\ UNCHANGED <<prov, type, rest, cancel, closes, synth, tb, usage_data,
                   raw_chunks, stream_finished, final_yielded, how, hist,
                   anyRaw, cancelAt, last>>

(***************************************************************************)
(* _StreamClient                                                           *)
(***************************************************************************)
\* Mutant of iteration_cancelled: the event is never consulted.
iteration_cancelled_never(is_set) == FALSE

\* _iteration_cancelled(): `self._cancel_event and self._cancel_event.is_set()`
iteration_cancelled(is_set) == is_set

\* Mutant of HasFinishReason: every chunk with choices counts as finished.
HasFinishReason_any_choice(chunk) ==
    LET choices == Get(chunk, "choices") IN
    /\ Truthy(choices)
    /\ choices.t = "arr"

\* _extract_finish_reason(chunk) is not None
HasFinishReason(chunk) ==
    LET choices == Get(chunk, "choices") IN
    /\ Truthy(choices)
    /\ choices.t = "arr"
    /\ IsDict(choices.kids[1])
    /\ Get(choices.kids[1], "finish_reason") # Null

\* Mutant of skips_raw: no raw line is skipped.
skips_raw_never(raw) == FALSE

\* `if not raw: continue` for a raw line.
skips_raw(raw) == raw = ""

\* Raw lines the line-based transport may deliver next, each with the deltas
\* left to send after it.
HttpItems ==
    {[raw |-> l, rest |-> rest] : l \in PlainLines}
    \cup (IF Len(raw_chunks) < MaxEvents
          THEN {[raw |-> DATA_PREFIX \o json_dumps(e), rest |-> rest] : e \in FixedEvents}
               \cup (IF rest # <<>>
                     THEN {[raw |-> DATA_PREFIX \o json_dumps(e), rest |-> Tail(rest)] :
                              e \in DeltaEvents(Head(rest))}
                     ELSE {})
          ELSE {})

\* _iter_http_stream, one turn of its loop for the raw line `it` the
\* transport delivers: cancellation check, skip of an empty line, yield to the
\* loop of stream().
HttpTurn(it) ==
    /\ anyRaw' = TRUE
    /\ UNCHANGED <<prov, type, cancel, synth, cancelAt>>
    /\ IF iteration_cancelled(cancel)
       THEN \* _iteration_cancelled closes, the finally of iter_lines closes again
            AfterLoop("cancelled", 2) /\ UNCHANGED rest
       ELSE IF skips_raw(it.raw)
       THEN UNCHANGED <<rest, ctl, out, pc, how, closes, hist>>
       ELSE ProcessLine(it.raw) /\ rest' = it.rest

HttpLine ==
    /\ pc = "loop"
    /\ type = "http"
    /\ \E it \in HttpItems : HttpTurn(it)
    /\ UNCHANGED last

\* Chunks (raw.model_dump()) the chunk transport may deliver next.
OpenaiItems ==
    IF Len(raw_chunks) < MaxEvents
    THEN {[chunk |-> e, rest |-> rest] : e \in {x \in FixedEvents : IsDict(x)}}
         \cup (IF rest # <<>>
               THEN {[chunk |-> e, rest |-> Tail(rest)] : e \in DeltaEvents(Head(rest))}
               ELSE {})
    ELSE {}

\* _iter_openai_stream, one turn of its loop for the chunk `it` the transport
\* delivers, yielded as `line`.
OpenaiTurn(it, line) ==
    /\ anyRaw' = TRUE
    /\ UNCHANGED <<prov, type, cancel, cancelAt>>
    /\ IF iteration_cancelled(cancel)
       THEN AfterLoop("cancelled", 2) /\ UNCHANGED <<rest, synth>>
       ELSE IF ~Truthy(it.chunk)
       THEN UNCHANGED <<rest, synth, ctl, out, pc, how, closes, hist>>
       ELSE /\ ProcessLine(line)
            /\ rest' = it.rest
            /\ synth' = (HasFinishReason(it.chunk) /\ pc' # "done")

OpenaiChunk ==
    /\ pc = "loop"
    /\ type = "openai"
    /\ ~synth
    /\ \E it \in OpenaiItems :
       \E line \in {DATA_PREFIX \o json_dumps(it.chunk)} : OpenaiTurn(it, line)
    /\ UNCHANGED last

\* The synthetic terminator line that follows a chunk with a finish_reason.
SyntheticTurn(line) ==
    /\ synth' = FALSE
    /\ ProcessLine(line)
    /\ UNCHANGED <<prov, type, rest, cancel, anyRaw, cancelAt>>

SyntheticDone ==
    /\ pc = "loop"
    /\ synth
    /\ \E line \in {DATA_PREFIX \o DoneToken} : SyntheticTurn(line)
    /\ UNCHANGED last

\* The transport has no further item: the loop ends, finally closes.
TransportExhausted ==
    /\ pc = "loop"
    /\ ~synth
    /\ AfterLoop("exhausted", 1)
    /\ UNCHANGED <<prov, type, rest, cancel, synth, anyRaw, cancelAt, last>>

\* The transport raises while the next item is read: finally closes, the
\* exception reaches the handler of stream().
TransportRaises ==
    /\ pc = "loop"
    /\ ~synth
    /\ Errored(raw_chunks, "transport_error")
    /\ UNCHANGED <<prov, type, rest, cancel, synth, ctl, hist, anyRaw, cancelAt, last>>

\* The caller sets the cancellation event.
SetCancel ==
    /\ pc # "done"
    /\ ~cancel
    /\ cancel' = TRUE
    /\ cancelAt' = <<Len(out), Len(pending), anyRaw>>
    /\ UNCHANGED <<prov, type, rest, closes, synth, ctl, out, pc, how, hist, anyRaw, last>>

Next ==
    \/ SetCancel
    \/ HttpLine
    \/ OpenaiChunk
    \/ SyntheticDone
    \/ TransportExhausted
    \/ TransportRaises
    \/ EmitRecord

Spec == Init /\ [][Next]_vars

(***************************************************************************)
(* BaseLLMProvider.structured_streaming_output (specification             *)
(* SpecProvider): one call, with the parser's records drawn from the       *)
(* shapes read_tokens produces.                                            *)
(***************************************************************************)
\* A class object; model tells whether it is a subclass of BaseModel.
ClassValue(name, model) ==
    [t |-> "class", n |-> IF model THEN 1 ELSE 0, s |-> name, kids |-> <<>>]

\* `isinstance(x, type) and issubclass(x, BaseModel)`
IsModelClass(x) == x.t = "class" /\ x.n = 1

\* Values passed for model, system_prompt and user_prompt.
TextArgs == { Null, Str(""), Str("x") }

\* Values passed for output_schema: None, a BaseModel subclass, the class
\* str, and a string.
SchemaArgs ==
    { Null, ClassValue("SampleSchema", TRUE), ClassValue("str", FALSE),
      Str("not a class") }

\* The record sequences the parser delivers.
ParserOutputs ==
    { <<FinalRecord(EmptyDict, <<>>)>>,
      <<DataRecord([a |-> 1]), FinalRecord(UsageOf(5), <<>>)>>,
      <<DataRecord([a |-> 1]), DataRecord([a |-> 2]), FinalRecord(EmptyDict, <<>>)>> }

\* Mutant of ValidateParameters: output_schema is checked before the texts.
ValidateParameters_schema_first(a) ==
    IF a.output_schema = Null
    THEN <<"Parameter 'output_schema' is required">>
    ELSE IF ~IsModelClass(a.output_schema)
    THEN <<"Parameter 'output_schema' must be a Pydantic BaseModel class">>
    ELSE IF ~Truthy(a.model)
    THEN <<"Parameter 'model' is required and cannot be empty">>
    ELSE IF ~Truthy(a.system_prompt)
    THEN <<"Parameter 'system_prompt' is required and cannot be empty">>
    ELSE IF ~Truthy(a.user_prompt)
    THEN <<"Parameter 'user_prompt' is required and cannot be empty">>
    ELSE <<>>

\* The parameter checks at the head of structured_streaming_output:
\* <<message>> of the ValidationError raised, <<>> when all pass.
ValidateParameters(a) ==
    IF ~Truthy(a.model)
    THEN <<"Parameter 'model' is required and cannot be empty">>
    ELSE IF ~Truthy(a.system_prompt)
    THEN <<"Parameter 'system_prompt' is required and cannot be empty">>
    ELSE IF ~Truthy(a.user_prompt)
    THEN <<"Parameter 'user_prompt' is required and cannot be empty">>
    ELSE IF a.output_schema = Null
    THEN <<"Parameter 'output_schema' is required">>
    ELSE IF ~IsModelClass(a.output_schema)
    THEN <<"Parameter 'output_schema' must be a Pydantic BaseModel class">>
    ELSE <<>>

InitProvider ==
    /\ type = "provider"
    /\ rest = <<>>
    /\ cancel = FALSE
    /\ closes = 0
    /\ synth = FALSE
    /\ tb = NewTokenBuffer
    /\ usage_data = EmptyDict
    /\ raw_chunks = <<>>
    /\ stream_finished = FALSE
    /\ final_yielded = FALSE
    /\ pending = <<>>
    /\ out = <<>>
    /\ pc = "call"
    /\ how = "run"
    /\ fed = ""
    /\ parsedAll = <<>>
    /\ postUsage = <<>>
    /\ unread = <<>>
    /\ anyRaw = FALSE
    /\ cancelAt = <<>>
    /\ last = <<>>
    /\ args \in [model : TextArgs, system_prompt : TextArgs,
                  user_prompt : TextArgs, output_schema : SchemaArgs]
    /\ raised = <<>>
    /\ completions = 0
    /\ parsers = 0
    /\ source = <<>>
    /\ items = <<>>

pipeline == <<type, rest, cancel, closes, synth, tb, usage_data, raw_chunks,
              stream_finished, final_yielded, pending, out, how, fed,
              parsedAll, postUsage, unread, anyRaw, cancelAt, last>>

\* The body of structured_streaming_output up to its `yield from`: the
\* parameter checks, then the completion call and the call of the parser.
ProviderCall ==
    /\ pc = "call"
    /\ \E msg \in {ValidateParameters(args)} :
       IF msg # <<>>
       THEN /\ raised' = msg
            /\ pc' = "raised"
            /\ UNCHANGED <<completions, parsers, source>>
       ELSE /\ completions' = completions + 1
            /\ parsers' = parsers + 1
            /\ source' \in ParserOutputs
            /\ pc' = "yield"
            /\ UNCHANGED raised
    /\ UNCHANGED <<pipeline, args, items>>

\* `yield from parse_streaming_response(...)`, which in turn is
\* `yield from read_tokens(...)`: the next record of the parser is yielded as
\* it is.
ProviderYield ==
    /\ pc = "yield"
    /\ Len(items) < Len(source)
    /\ items' = Append(items, source[Len(items) + 1])
    /\ UNCHANGED <<pipeline, pc, args, raised, completions, parsers, source>>

\* The parser is exhausted: the generator returns.
ProviderReturn ==
    /\ pc = "yield"
    /\ Len(items) = Len(source)
    /\ pc' = "done"
    /\ UNCHANGED <<pipeline, args, raised, completions, parsers, source, items>>

NextProvider ==
    \/ ProviderCall
    \/ ProviderYield
    \/ ProviderReturn

SpecProvider == InitProvider /\ [][NextProvider]_vars

(***************************************************************************)
(* Properties of the record sequence of read_tokens (specification Spec).  *)
(***************************************************************************)
Last(o) == o[Len(o)]

Terminals(o) == {i \in 1..Len(o) : o[i].finished}

\* The validated instances carried by the non-terminal records, in order.
DataOf(o) ==
    LET d == SelectSeq(o, LAMBDA r : ~r.finished)
    IN [i \in 1..Len(d) |-> d[i].data]

\* The instances of the conforming values among vals, in order.
ConformingOf(vals) ==
    LET c == SelectSeq(vals, LAMBDA v : validate(v) # <<>>)
    IN [i \in 1..Len(c) |-> validate(c[i])]

\* text is a JSON array (json.loads accepts it and returns a list).
IsArrayText(text) == json_loads(text).ok /\ json_loads(text).val.t = "arr"

\* text is a JSON array all of whose elements conform to the schema.
IsConformingArrayText(text) ==
    /\ IsArrayText(text)
    /\ \A i \in 1..Len(json_loads(text).val.kids) :
          validate(json_loads(text).val.kids[i]) # <<>>

Faulted == how \in {"transport_error", "body_error"}

\* C1: the record sequence of a drained stream holds exactly one record with
\* finished = true, it is the last record, and nothing follows it: at most
\* one terminal record exists at any time, it is the last one, the stream is
\* over once it exists, and a stream that is over has one.
C1_OneTerminalLast ==
    /\ Cardinality(Terminals(out)) <= 1
    /\ \A i \in Terminals(out) : i = Len(out) /\ pc = "done"
    /\ pc = "done" => Cardinality(Terminals(out)) = 1

\* C1 witness: the transport raised part-way, after a data record was yielded.
C1_Witness ==
    /\ pc = "done"
    /\ how = "transport_error"
    /\ Len(out) >= 2
    /\ Last(out).finished

\* C2: when the deltas fed reconstruct a JSON array of N conforming objects
\* (and the stream ended without fault or cancellation), the non-terminal
\* records are exactly those N objects in array order, followed by exactly
\* one terminal record.
C2_ObjectsInArrayOrder ==
    (pc = "done" /\ how \in {"exhausted", "usage_after_done"}
        /\ IsConformingArrayText(fed))
    => /\ DataOf(out) = ConformingOf(json_loads(fed).val.kids)
       /\ Terminals(out) = {Len(out)}

\* C4: a complete element that fails validation yields no record and no
\* error, leaves the pending text, and blocks nothing after it: the data
\* records (with those validated and about to be yielded) are exactly the
\* conforming ones among all values parsed so far, in order; no complete
\* value stays at the front of the pending text of an open array; and an
\* error-carrying stream has a cause other than validation.
C4_InvalidElementSkipped ==
    /\ DataOf(out) \o [i \in 1..Len(pending) |-> <<pending[i]>>] = ConformingOf(parsedAll)
    /\ tb.array_started => ~raw_decode(tb.buffer).ok
    /\ (\E i \in 1..Len(out) : out[i].error # <<>>)
          => \/ how = "transport_error"
             \/ /\ how = "body_error"
                /\ \/ ~IsDict(Last(raw_chunks))
                   \/ content_from_event(Last(raw_chunks)).raises
                   \/ content_from_event(Last(raw_chunks)).content[1].t # "str"

\* C4 witness: an element that fails validation was parsed before one that
\* passes, and the stream ended normally with the later one emitted.
C4_Witness ==
    /\ pc = "done"
    /\ how = "exhausted"
    /\ \E i, j \in 1..Len(parsedAll) :
          /\ i < j
          /\ validate(parsedAll[i]) = <<>>
          /\ validate(parsedAll[j]) # <<>>
          /\ \E k \in 1..Len(out) : out[k].data = validate(parsedAll[j])

\* C5: when an event with non-empty usage is decoded after the terminal
\* marker, the terminal record carries that event's usage.
C5_PostTerminatorUsage ==
    (pc = "done" /\ postUsage # <<>>)
    => /\ Last(out).finished
       /\ Last(out).usage = postUsage[1]
       /\ Last(out).error = <<>>

\* C5 witness: usage 5 arrived after the marker, a different usage before it.
C5_Witness ==
    /\ pc = "done"
    /\ postUsage = <<UsageOf(5)>>
    /\ Len(raw_chunks) >= 2
    /\ HasUsage(raw_chunks[1])
    /\ Get(raw_chunks[1], "usage") = UsageOf(7)

\* C6: a fault ends the stream with exactly one further record, which is
\* terminal, has no data, carries the raw-event log and a non-empty error
\* string; the records before it are not terminal, carry no error and are
\* left as they were; no record but that one carries an error.
C6_StateInv ==
    /\ Faulted =>
          /\ pc = "done"
          /\ Last(out).finished
          /\ Last(out).data = <<>>
          /\ Last(out).raw_chunks = <<raw_chunks>>
          /\ Last(out).error # <<>>
          /\ Last(out).error[1] # ""
          /\ \A i \in 1..(Len(out) - 1) : ~out[i].finished
    /\ \A i \in 1..Len(out) :
          out[i].error # <<>> => (Faulted /\ i = Len(out))

C6_Step ==
    (~Faulted /\ Faulted') =>
        /\ Len(out') = Len(out) + 1
        /\ SubSeq(out', 1, Len(out)) = out

\* C6: the state and the step part together.
C6_ErrorRecord == []C6_StateInv /\ [][C6_Step]_vars

\* C6 witness: an event raised in the loop body after a data record was
\* yielded and two events were logged.
C6_Witness ==
    /\ how = "body_error"
    /\ Len(out) >= 2
    /\ Len(raw_chunks) >= 2
    /\ Last(out).error # <<>>

C8_ClosedExactlyOnce ==
    pc = "done" => closes = 1

RECURSIVE LastUsageIn(_)
\* The usage of the last event of the log that carries non-empty usage, {}
\* when there is none.
LastUsageIn(chunks) ==
    IF chunks = <<>> THEN EmptyDict
    ELSE IF /\ IsDict(Last(chunks))
            /\ HasKey(Last(chunks), "usage")
            /\ Truthy(Get(Last(chunks), "usage"))
         THEN Get(Last(chunks), "usage")
    ELSE LastUsageIn(SubSeq(chunks, 1, Len(chunks) - 1))

\* C9: when the line sequence ends in Streaming or Draining (the transport
\* is exhausted or the Line Source stops; no usage-bearing event followed the
\* marker), exactly one terminal record is emitted, with no data, the usage
\* of the last usage-bearing event ({} when there was none) and the
\* raw-event log; with no line at all that record is the whole output, with
\* usage {} and an empty log.
C9_ExhaustedTerminal ==
    how \in {"exhausted", "cancelled"} =>
        /\ pc = "done"
        /\ postUsage = <<>>
        /\ Terminals(out) = {Len(out)}
        /\ Last(out).data = <<>>
        /\ Last(out).usage = LastUsageIn(raw_chunks)
        /\ Last(out).raw_chunks = <<raw_chunks>>
        /\ Last(out).error = <<>>
        /\ ~anyRaw => out = <<FinalRecord(EmptyDict, <<>>)>>

\* C9 witness: the lines ran out in Draining after an event with usage 7.
C9_Witness ==
    /\ how = "exhausted"
    /\ stream_finished
    /\ Len(out) >= 2
    /\ Last(out).usage = UsageOf(7)

\* C10: every record is either non-terminal (finished = false, data a
\* validated instance, usage empty, no raw-event log) or terminal
\* (finished = true, data null, with the raw-event log).
C10_RecordShapes ==
    \A i \in 1..Len(out) :
        \/ /\ ~out[i].finished
           /\ out[i].data # <<>>
           /\ \E k \in 1..Len(parsedAll) : validate(parsedAll[k]) = out[i].data
           /\ out[i].usage = EmptyDict
           /\ out[i].raw_chunks = <<>>
        \/ /\ out[i].finished
           /\ out[i].data = <<>>
           /\ out[i].raw_chunks # <<>>

\* C10 witness: a finished stream with two data records and its terminal one.
C10_Witness ==
    /\ pc = "done"
    /\ Len(out) = 3
    /\ ~out[1].finished
    /\ ~out[2].finished
    /\ out[3].finished

\* C11 (as stated): for a line sequence that ends without a fault, the
\* terminal record's usage is the usage of the last usage-bearing event of
\* the input sequence (the events read and those left in the transport),
\* wherever those events fall relative to the terminal marker.
C11_LastUsageOfInput ==
    (pc = "done" /\ how \in {"exhausted", "usage_after_done"})
    => Last(out).usage = LastUsageIn(raw_chunks \o unread)

\* C11 (amended): for a line sequence that ends without a fault, the terminal
\* record's usage is the usage of the last usage-bearing event the controller
\* read ({} when it read none); when a usage-bearing event follows the
\* marker, that is the first such event, which is the last event read.
C11_LastUsageRead ==
    (pc = "done" /\ ~Faulted)
    => /\ Last(out).finished
       /\ Last(out).usage = LastUsageIn(raw_chunks)
       /\ postUsage # <<>> =>
             /\ how = "usage_after_done"
             /\ Last(out).usage = postUsage[1]
             /\ Get(Last(raw_chunks), "usage") = postUsage[1]

\* C11 witness: usage 7 came before the marker, usage 5 after it ended the
\* stream, and another usage-bearing event was left unread.
C11_Witness ==
    /\ pc = "done"
    /\ how = "usage_after_done"
    /\ unread = <<UsageEvent(7)>>
    /\ Len(raw_chunks) >= 2
    /\ LastUsageIn(SubSeq(raw_chunks, 1, Len(raw_chunks) - 1)) = UsageOf(7)
    /\ Last(out).usage = UsageOf(5)

\* C13: when the cancellation signal stops the stream, the stream ends like
\* a normal one (the generator finishes, its last record is the terminal
\* record) and no record carries an error field.
C13_CancelNoError ==
    how = "cancelled" =>
        /\ pc = "done"
        /\ Last(out).finished
        /\ \A i \in 1..Len(out) : out[i].error = <<>>

\* C13 witness: the signal stopped a stream that had logged events and
\* yielded a data record.
C13_Witness ==
    /\ how = "cancelled"
    /\ cancel
    /\ raw_chunks # <<>>
    /\ Len(out) >= 2
    /\ ~out[1].finished

\* C33: the error-carrying terminal record always has the empty mapping as
\* its usage, also when a usage snapshot that is not empty was taken from an
\* earlier event of the stream.
C33_ErrorUsageEmpty ==
    \A i \in 1..Len(out) : out[i].error # <<>> => out[i].usage = EmptyDict

\* C33 witness: a fault ended a stream whose snapshot held usage 7 (the log
\* holds the event it came from); the error record has usage {}.
C33_Witness ==
    /\ Faulted
    /\ usage_data = UsageOf(7)
    /\ \E k \in 1..Len(raw_chunks) :
          IsDict(raw_chunks[k]) /\ Get(raw_chunks[k], "usage") = UsageOf(7)
    /\ Last(out).error # <<>>
    /\ Last(out).usage = EmptyDict

\* The line loop ends in this step because the Line Source stops: on
\* cancellation, or because the transport is exhausted.
LineSourceStops(cause) == how = "run" /\ how' = cause

\* The step appends one terminal record without error that carries the usage
\* snapshot and the raw-event log as they are, and ends the stream.
EndsWithSnapshot ==
    /\ out' = Append(out, [data |-> <<>>, usage |-> usage_data, finished |-> TRUE,
                           raw_chunks |-> <<raw_chunks>>, error |-> <<>>])
    /\ \A i \in 1..Len(out) : ~out[i].finished
    /\ UNCHANGED <<usage_data, raw_chunks, tb>>
    /\ pc' = "done"

\* C30: when the Line Source detects cancellation it stops yielding lines and
\* the controller does what it does when the lines run out: no terminal
\* record having been emitted before, it emits exactly one terminal record
\* (finished, no data, no error) with the usage snapshot and the raw-event
\* log accumulated before the cancellation, and the stream is over.
C30_CancelLikeExhaustion ==
    [][/\ LineSourceStops("cancelled") => (cancel /\ EndsWithSnapshot)
       /\ LineSourceStops("exhausted") => EndsWithSnapshot]_vars

\* C30 witness: cancellation was detected after a usage snapshot had been
\* taken, two events logged and a data record emitted; the terminal record
\* carries that snapshot and that log.
C30_Witness ==
    /\ how = "cancelled"
    /\ usage_data = UsageOf(7)
    /\ Len(raw_chunks) >= 2
    /\ Len(out) >= 2
    /\ Last(out).usage = UsageOf(7)
    /\ Last(out).raw_chunks = <<raw_chunks>>
    /\ Last(out).error = <<>>

\* The step logs an event that carries non-empty usage.
LogsUsageEvent ==
    /\ Len(raw_chunks') = Len(raw_chunks) + 1
    /\ IsDict(Last(raw_chunks'))
    /\ HasKey(Last(raw_chunks'), "usage")
    /\ Truthy(Get(Last(raw_chunks'), "usage"))

\* C18: in Draining, the step that handles the first event with non-empty
\* usage emits the terminal record at once, with that event's usage and the
\* log ending with that event, feeds nothing, and ends the stream: no step
\* follows (no further line is pulled).
C18_DrainingUsageEnds ==
    [][/\ pc # "done"
       /\ (stream_finished /\ LogsUsageEvent) =>
             /\ Len(out') = Len(out) + 1
             /\ SubSeq(out', 1, Len(out)) = out
             /\ Last(out').finished
             /\ Last(out').data = <<>>
             /\ Last(out').error = <<>>
             /\ Last(out').usage = Get(Last(raw_chunks'), "usage")
             /\ Last(out').raw_chunks = <<raw_chunks'>>
             /\ tb' = tb
             /\ pc' = "done"]_vars

\* C18 witness: the stream ended on an event after the marker that carries
\* usage 7 and also a delta, and the terminal record has that usage.
C18_Witness ==
    /\ pc = "done"
    /\ how = "usage_after_done"
    /\ stream_finished
    /\ HasKey(Last(raw_chunks), "choices")
    /\ Last(out).usage = UsageOf(7)
    /\ Last(out).raw_chunks = <<raw_chunks>>

\* C19: once the terminal marker has been decoded, the only record still
\* emitted is the terminal one: no step taken in Draining adds a
\* non-terminal record.
C19_NoDataAfterTerminator ==
    [][(stream_finished /\ Len(out') > Len(out)) => Last(out').finished]_vars

(***************************************************************************)
(* Progress (specification SpecLive).  The consumer keeps pulling, so a    *)
(* record waiting to be yielded is yielded and a suspended Line Source is  *)
(* resumed; the transport is finite, so it eventually ends (it runs out or *)
(* raises) unless the stream is over before.                               *)
(***************************************************************************)
SpecLive ==
    /\ Init
    /\ [][Next]_vars
    /\ WF_vars(EmitRecord)
    /\ WF_vars(SyntheticDone)
    /\ WF_vars(TransportExhausted \/ TransportRaises)

\* C14: with a transport that ends after finitely many lines or chunks, the
\* consumer that keeps pulling eventually has received the terminal record as
\* the last record and the sequence is over from then on.
C14_Terminates ==
    <>[](pc = "done" /\ out # <<>> /\ Last(out).finished)

\* C14 witness: the stream is over although the marker was seen and no
\* usage-bearing event followed it.
C14_Witness ==
    /\ pc = "done"
    /\ how = "exhausted"
    /\ stream_finished
    /\ postUsage = <<>>
    /\ usage_data = EmptyDict
    /\ Last(out).finished

(***************************************************************************)
(* A transport that may stall (specification SpecStalled).  The loop of    *)
(* the Line Source, `for raw in <transport>`, asks the transport for its   *)
(* next item and waits until the transport answers; a stalled transport    *)
(* never answers.  pc = "blocked" is the Line Source waiting in that read.  *)
(* No statement of the program runs while it waits: the cancellation event *)
(* is consulted after the read has returned.                               *)
(***************************************************************************)
TransportStalls ==
    /\ pc = "loop"
    /\ ~synth
    /\ pc' = "blocked"
    /\ UNCHANGED <<prov, type, rest, cancel, closes, synth, ctl, out, how,
                   hist, anyRaw, cancelAt, last>>

NextStalled ==
    \/ Next
    \/ TransportStalls

SpecStalled ==
    /\ Init
    /\ [][NextStalled]_vars
    /\ WF_vars(EmitRecord)
    /\ WF_vars(SyntheticDone)
    /\ WF_vars(TransportExhausted \/ TransportRaises \/ TransportStalls)

\* C24: when the cancellation signal is set while the consumer is blocked in
\* a read of a stalled transport, the stream eventually ends (the transport
\* is closed and the sequence stops) although no further line arrives.
C24_CancelEndsStalled ==
    (pc = "blocked" /\ cancel) ~> (pc = "done" /\ closes >= 1)

(***************************************************************************)
(* Traced runs (specification SpecLines): the same program, with the       *)
(* history variable last set to the line the loop body of stream() handles *)
(* in a turn of the Line Source, with a bit that alternates from one line  *)
(* handled to the next.  A step that changes last is the handling of the   *)
(* line last'[1].                                                          *)
(***************************************************************************)
\* The value of last after the loop body has handled line.
Handled(line) == <<line, IF last = <<>> THEN 1 ELSE 1 - last[2]>>

HttpLineTraced ==
    /\ pc = "loop"
    /\ type = "http"
    /\ \E it \in HttpItems :
        /\ HttpTurn(it)
        /\ last' = IF iteration_cancelled(cancel) \/ skips_raw(it.raw)
                   THEN last ELSE Handled(it.raw)

OpenaiChunkTraced ==
    /\ pc = "loop"
    /\ type = "openai"
    /\ ~synth
    /\ \E it \in OpenaiItems :
       \E line \in {DATA_PREFIX \o json_dumps(it.chunk)} :
        /\ OpenaiTurn(it, line)
        /\ last' = IF iteration_cancelled(cancel) \/ ~Truthy(it.chunk) THEN last ELSE Handled(line)

SyntheticDoneTraced ==
    /\ pc = "loop"
    /\ synth
    /\ \E line \in {DATA_PREFIX \o DoneToken} :
        /\ SyntheticTurn(line)
        /\ last' = Handled(line)

NextLines ==
    \/ SetCancel
    \/ HttpLineTraced
    \/ OpenaiChunkTraced
    \/ SyntheticDoneTraced
    \/ TransportExhausted
    \/ TransportRaises
    \/ EmitRecord

\* The delta sequences of the traced runs: none, and two objects in two
\* deltas.
TracedStreams == { d \in DeltaStreams : d = <<>> \/ d = <<"[{\"a\":1},", "{\"a\":2}]">> }

InitLines == Init /\ rest \in TracedStreams

SpecLines == InitLines /\ [][NextLines]_vars

\* The step handles a line, namely last'[1].
Handles == last' # last

\* The state of the controller and what the caller has seen of it.
controller == <<tb, usage_data, raw_chunks, stream_finished, final_yielded,
                pending, out, pc, how, closes>>

\* A line the Event Decoder ignores: it does not start with "data: ", or its
\* payload is neither the terminal marker nor parsable JSON.
IgnoredLine(line) ==
    \/ ~StartsWith(line, "data: ")
    \/ /\ From(line, 7) # "[DONE]"
       /\ ~json_loads(From(line, 7)).ok

\* C12: handling a line the Event Decoder ignores leaves the controller
\* state unchanged (parse buffer, usage snapshot, raw-event log, Streaming or
\* Draining) and emits no record, so the lines around it are handled as if
\* it were absent.
C12_IgnoredLineFrame ==
    [][(Handles /\ IgnoredLine(last'[1])) => UNCHANGED controller]_vars

\* C12 witness: a line with an unparsable payload was handled in the middle
\* of a stream, after a data record and with deltas still to come.
C12_Witness ==
    /\ last # <<>>
    /\ last[1] = "data: {\"choices\": ["
    /\ pc = "loop"
    /\ Len(out) >= 1
    /\ ~Last(out).finished
    /\ rest # <<>>

\* C20: handling a line whose payload is exactly [DONE] puts the controller
\* in Draining and does nothing else (the log, the parse buffer, the usage
\* snapshot and the output stay as they are), and no step leads from
\* Draining back to Streaming.
C20_MarkerFrame ==
    [][/\ (Handles /\ last'[1] = "data: [DONE]") =>
             /\ stream_finished'
             /\ UNCHANGED <<tb, usage_data, raw_chunks, final_yielded, pending,
                            out, pc, how, closes>>
       /\ stream_finished => stream_finished']_vars

\* C20 witness: the marker was handled in a stream that had logged events,
\* taken a usage snapshot and yielded a data record; the controller is in
\* Draining and waits for the next line.
C20_Witness ==
    /\ last # <<>>
    /\ last[1] = "data: [DONE]"
    /\ stream_finished
    /\ pc = "loop"
    /\ usage_data = UsageOf(7)
    /\ Len(raw_chunks) >= 1
    /\ Len(out) >= 1

\* The event the Event Decoder decodes from the line: <<>> when it decodes
\* none.
DecodedFrom(line) ==
    IF StartsWith(line, "data: ") /\ From(line, 7) # "[DONE]"
    THEN LET r == json_loads(From(line, 7)) IN IF r.ok THEN <<r.val>> ELSE <<>>
    ELSE <<>>

\* The step yields a terminal record that carries no error.
YieldsPlainTerminal ==
    /\ Len(out') = Len(out) + 1
    /\ Last(out').finished
    /\ Last(out').error = <<>>

\* C21 (as stated): every event decoded from a line the controller handles is
\* appended to the raw-event log, so that the log of a non-error terminal
\* record is the sequence of all events decoded from the lines consumed.
C21_LogAllDecoded ==
    [][/\ Handles =>
             \A event \in {DecodedFrom(last'[1])} :
                 event # <<>> => raw_chunks' = Append(raw_chunks, event[1])
       /\ YieldsPlainTerminal => Last(out').raw_chunks = <<raw_chunks'>>]_vars

\* C21 (amended): the raw-event log changes only when a line is handled from
\* which an event is decoded that is not empty (not {}, null, 0, false, ""
\* or []), and then by appending that event; a non-error terminal record
\* carries the log as it is when the record is emitted.  Hence that log is the
\* sequence of the non-empty events decoded from the lines consumed so far,
\* each once and in arrival order.
C21_LogNonEmptyDecoded ==
    [][/\ Handles =>
             \A event \in {DecodedFrom(last'[1])} :
                 raw_chunks' = IF event # <<>> /\ Truthy(event[1])
                               THEN Append(raw_chunks, event[1])
                               ELSE raw_chunks
       /\ ~Handles => raw_chunks' = raw_chunks
       /\ YieldsPlainTerminal => Last(out').raw_chunks = <<raw_chunks'>>]_vars

\* C21 witness: the last line handled carried the empty object, which the
\* log of the terminal record does not hold, after two events that it holds.
C21_Witness ==
    /\ last # <<>>
    /\ last[1] = "data: {}"
    /\ pc = "done"
    /\ how = "exhausted"
    /\ Len(raw_chunks) = 2
    /\ Last(out).error = <<>>
    /\ Last(out).raw_chunks = <<raw_chunks>>

\* The first choice of the chunk has a finish_reason that is not null.
FirstChoiceFinished(chunk) ==
    /\ HasKey(chunk, "choices")
    /\ Get(chunk, "choices").t = "arr"
    /\ Get(chunk, "choices").kids # <<>>
    /\ HasKey(Get(chunk, "choices").kids[1], "finish_reason")
    /\ Get(Get(chunk, "choices").kids[1], "finish_reason").t # "null"

\* C22: with a transport of provider chunk objects, a line yielded for a
\* chunk is one `data: <json>` line that decodes to a non-empty chunk; when
\* that chunk's first choice has a non-null finish_reason, the very next line
\* yielded is one `data: [DONE]`, before any further chunk is read; and a
\* terminator line is yielded at no other place (never after a chunk without
\* finish_reason on its first choice).  (The terminator is owed only while
\* the consumer still pulls: synth is dropped when the stream is over.)
C22_ChunkLines ==
    [][type = "openai" =>
          /\ (Handles /\ ~synth) =>
                \A chunk \in {DecodedFrom(last'[1])} :
                    /\ chunk # <<>>
                    /\ IsDict(chunk[1])
                    /\ Truthy(chunk[1])
                    /\ synth' = (FirstChoiceFinished(chunk[1]) /\ pc' # "done")
          /\ (Handles /\ synth) =>
                /\ last'[1] = "data: [DONE]"
                /\ ~synth'
                /\ rest' = rest
                /\ raw_chunks' = raw_chunks
          /\ (~Handles /\ pc' # "done") => synth' = synth
          /\ synth => (pc \in {"loop", "emit"} /\ FirstChoiceFinished(Last(raw_chunks)))]_vars

\* C22 witness: the terminator line followed the line of a chunk with a
\* finish_reason, which came after a chunk whose finish_reason is null and
\* after which no terminator line was yielded.
C22_Witness ==
    /\ type = "openai"
    /\ Len(raw_chunks) = 2
    /\ IsDict(raw_chunks[1])
    /\ Get(raw_chunks[1], "choices").kids # <<>>
    /\ Get(raw_chunks[1], "choices").kids[1] = NullFinishChoice(Str("[{\"a\":1},"))
    /\ FirstChoiceFinished(raw_chunks[2])
    /\ last # <<>>
    /\ last = <<"data: [DONE]", 1>>
    /\ ~synth
    /\ pc = "loop"

\* C29 (as stated): in the line-based shape no line handed to the controller
\* is empty or consists of whitespace only.
C29_NoBlankLine ==
    [][(type = "http" /\ Handles) => LStrip(last'[1]) # ""]_vars

\* C29 (amended): in the line-based shape no line handed to the controller is
\* empty; a line of whitespace only is handed over, and the controller
\* ignores it (its state and its output stay as they are).
C29_NoEmptyLine ==
    [][(type = "http" /\ Handles) =>
          /\ last'[1] # ""
          /\ LStrip(last'[1]) = "" => UNCHANGED controller]_vars

\* C29 witness: a line that holds one space was handed to the controller in
\* the middle of a stream.
C29_Witness ==
    /\ type = "http"
    /\ last # <<>>
    /\ last[1] = " "
    /\ pc = "loop"
    /\ raw_chunks # <<>>
    /\ rest # <<>>

\* C23: the cancellation signal is checked before every read of the
\* transport and before every line yielded: once the signal is set, no step
\* reads an item from the transport (in particular the transport is never
\* read when the signal was set before the first read) and no step hands a
\* line to the controller, the synthetic `data: [DONE]` included.
C23_CheckedBeforeRead ==
    [][cancel => (~Handles /\ anyRaw' = anyRaw)]_vars

(***************************************************************************)
(* _TokenBuffer on its own (specification SpecFeed): a text is cut into    *)
(* substrings at arbitrary places and fed in order to a fresh buffer.      *)
(* rest holds the one text still to feed, fed what was fed, parsedAll the  *)
(* values returned so far.                                                 *)
(***************************************************************************)
FeedTexts ==
    { "[{\"a\":1},{\"a\":2}]",
      "[12,3]",
      "[ {\"b\":1} , null ]",
      "[\"a]\",[1,2],true]",
      "[[],{}]",
      "[]" }

InitFeed ==
    /\ type = "feed"
    /\ rest \in {<<x>> : x \in FeedTexts}
    /\ cancel = FALSE
    /\ closes = 0
    /\ synth = FALSE
    /\ tb = NewTokenBuffer
    /\ usage_data = EmptyDict
    /\ raw_chunks = <<>>
    /\ stream_finished = FALSE
    /\ final_yielded = FALSE
    /\ pending = <<>>
    /\ out = <<>>
    /\ pc = "feed"
    /\ how = "run"
    /\ fed = ""
    /\ parsedAll = <<>>
    /\ postUsage = <<>>
    /\ unread = <<>>
    /\ anyRaw = FALSE
    /\ cancelAt = <<>>
    /\ last = <<>>
    /\ ProviderIdle

\* One call of feed with the next k characters of the text.
FeedChunk ==
    /\ pc = "feed"
    /\ rest[1] # ""
    /\ \E k \in 1..Len(rest[1]) :
       \E chunk \in {SubSeq(rest[1], 1, k)} :
       \E r \in {feed(tb, chunk)} :
          /\ tb' = r.tb
          /\ parsedAll' = parsedAll \o r.parsed
          /\ fed' = fed \o chunk
          /\ rest' = <<From(rest[1], k + 1)>>
    /\ UNCHANGED <<prov, type, cancel, closes, synth, usage_data, raw_chunks,
                   stream_finished, final_yielded, pending, out, pc, how,
                   postUsage, unread, anyRaw, cancelAt, last>>

NextFeed == FeedChunk

SpecFeed == InitFeed /\ [][NextFeed]_vars

\* C3: split-invariance of feed: once a JSON array text has been fed whole,
\* in whatever pieces, the values returned over the calls are those one call
\* of feed on the whole text returns to a fresh buffer.
C3_SplitInvariance ==
    (pc = "feed" /\ rest = <<"">> /\ IsArrayText(fed))
    => parsedAll = feed(NewTokenBuffer, fed).parsed

RECURSIVE ElementsWithin(_, _, _)
\* The elements of the array text, scanned from position i (after the '['),
\* whose last character lies within the first n characters of the text.
ElementsWithin(text, i, n) ==
    LET j == SkipWs(text, i) IN
    IF Ch(text, j) \in {"", "]"} THEN <<>>
    ELSE LET r == ScanOnce(text, j) IN
         IF ~r.ok THEN <<>>
         ELSE LET k == SkipWs(text, r.end)
                  next == IF Ch(text, k) = "," THEN k + 1 ELSE k
              IN (IF r.end - 1 <= n THEN <<r.val>> ELSE <<>>)
                     \o ElementsWithin(text, next, n)

\* C15: promptness of feed: after every call, the values returned so far are
\* exactly the elements of the array whose last character has been fed: each
\* is returned by the call that completes it, whatever follows it, and none
\* is returned earlier.
C15_Promptness ==
    pc = "feed" => parsedAll = ElementsWithin(fed \o rest[1], 2, Len(fed))

(***************************************************************************)
(* Properties of structured_streaming_output (specification SpecProvider). *)
(***************************************************************************)
\* The validated objects of the parser's data records, in order.
ObjectsOf(records) ==
    LET d == SelectSeq(records, LAMBDA r : ~r.finished)
    IN [i \in 1..Len(d) |-> d[i].data[1]]

\* C16: structured_streaming_output yields exactly one item per validated
\* object the parser delivers, in order, each item equal to that object; the
\* parser's terminal record is not yielded.
C16_YieldsValidatedObjects ==
    (pc = "done" /\ raised = <<>>) => items = ObjectsOf(source)

\* A text parameter that is missing or empty.
Empty(x) == x \in {Null, Str("")}

\* The outcome the parameter checks must have, taken in the order model,
\* system_prompt, user_prompt, output_schema given, output_schema a BaseModel
\* class: the message of the first one that fails, <<>> when none does.
FirstFailure(a) ==
    IF Empty(a.model)
    THEN <<"Parameter 'model' is required and cannot be empty">>
    ELSE IF Empty(a.system_prompt)
    THEN <<"Parameter 'system_prompt' is required and cannot be empty">>
    ELSE IF Empty(a.user_prompt)
    THEN <<"Parameter 'user_prompt' is required and cannot be empty">>
    ELSE IF a.output_schema = Null
    THEN <<"Parameter 'output_schema' is required">>
    ELSE IF a.output_schema \notin {ClassValue("SampleSchema", TRUE)}
    THEN <<"Parameter 'output_schema' must be a Pydantic BaseModel class">>
    ELSE <<>>

\* C17: structured_streaming_output raises ValidationError exactly when a
\* text parameter is empty, output_schema is None or output_schema is not a
\* BaseModel class; the first failing check in that order determines the
\* message; and when it raises, neither the completion call nor the parser
\* has been invoked and nothing has been yielded.
C17_ParameterChecks ==
    pc # "call" =>
        /\ raised = FirstFailure(args)
        /\ raised # <<>> =>
              /\ pc = "raised"
              /\ completions = 0
              /\ parsers = 0
              /\ items = <<>>
        /\ raised = <<>> => (completions = 1 /\ parsers = 1)

\* C17 witness: system_prompt, user_prompt and output_schema are all invalid
\* and the error names system_prompt, the first of them.
C17_Witness ==
    /\ pc = "raised"
    /\ args.model = Str("x")
    /\ args.system_prompt = Str("")
    /\ args.user_prompt = Null
    /\ args.output_schema = Str("not a class")
    /\ raised = <<"Parameter 'system_prompt' is required and cannot be empty">>

(***************************************************************************)
(* _TokenBuffer fed with any deltas (specification SpecDeltas): a text     *)
(* that may hold characters before its first '[' and after its ']' is cut  *)
(* into deltas, an empty delta included, which are fed in order to a fresh *)
(* buffer.  last is <<delta, turn>> for the delta fed last.                *)
(***************************************************************************)
DeltaTexts ==
    { "ok: [{\"a\":1}]",
      "x [1] [2]",
      "[7]8,9",
      "[ ]y[3",
      "[1,2,x]",
      "none" }

InitDeltas ==
    /\ type = "deltas"
    /\ rest \in {<<x>> : x \in DeltaTexts}
    /\ cancel = FALSE
    /\ closes = 0
    /\ synth = FALSE
    /\ tb = NewTokenBuffer
    /\ usage_data = EmptyDict
    /\ raw_chunks = <<>>
    /\ stream_finished = FALSE
    /\ final_yielded = FALSE
    /\ pending = <<>>
    /\ out = <<>>
    /\ pc = "feed"
    /\ how = "run"
    /\ fed = ""
    /\ parsedAll = <<>>
    /\ postUsage = <<>>
    /\ unread = <<>>
    /\ anyRaw = FALSE
    /\ cancelAt = <<>>
    /\ last = <<>>
    /\ ProviderIdle

\* One call of feed with the next k characters of the text; k = 0 is the
\* empty delta.
FeedDelta ==
    /\ pc = "feed"
    /\ type = "deltas"
    /\ \E k \in 0..Len(rest[1]) :
       \E chunk \in {SubSeq(rest[1], 1, k)} :
       \E r \in {feed(tb, chunk)} :
          /\ tb' = r.tb
          /\ parsedAll' = parsedAll \o r.parsed
          /\ fed' = fed \o chunk
          /\ rest' = <<From(rest[1], k + 1)>>
          /\ last' = Handled(chunk)
    /\ UNCHANGED <<prov, type, cancel, closes, synth, usage_data, raw_chunks,
                   stream_finished, final_yielded, pending, out, pc, how,
                   postUsage, unread, anyRaw, cancelAt>>

NextDeltas == FeedDelta

SpecDeltas == InitDeltas /\ [][NextDeltas]_vars

\* No '[' occurs in the text.
NoBracket(text) == \A i \in 1..Len(text) : Ch(text, i) # "["

\* The text after its first '['.
AfterBracket(text) ==
    From(text, 1 + CHOOSE i \in 1..Len(text) :
                      Ch(text, i) = "[" /\ \A j \in 1..(i - 1) : Ch(text, j) # "[")

\* A buffer whose array is open and whose pending text is empty.
OpenedBuffer == [buffer |-> "", array_started |-> TRUE, saw_chunk |-> TRUE]

\* C25: as long as no '[' has been fed, feed has returned no value and the
\* pending text is all the text fed; the call after which the text fed holds
\* a '[' for the first time drops everything up to and including the first
\* '[', opens the array and parses the remainder in that same call: it
\* returns the values, and leaves the buffer, that feeding the remainder to a
\* buffer with an open array and no pending text gives.
C25_OpeningBracket ==
    /\ [](NoBracket(fed) =>
              /\ parsedAll = <<>>
              /\ tb.buffer = fed
              /\ ~tb.array_started)
    /\ [][(Handles /\ NoBracket(fed) /\ ~NoBracket(fed')) =>
              \A text \in {AfterBracket(fed')} :
                  IF text = ""
                  THEN parsedAll' = <<>> /\ tb'.buffer = "" /\ tb'.array_started
                  ELSE /\ parsedAll' = feed(OpenedBuffer, text).parsed
                       /\ tb' = feed(OpenedBuffer, text).tb]_vars

\* C25 witness: the text before the bracket came in earlier deltas, the
\* bracket and a complete object in a later one, and the object was returned
\* by that call.
C25_Witness ==
    /\ type = "deltas"
    /\ fed = "ok: [{\"a\":1}"
    /\ last = <<" [{\"a\":1}", 1>>
    /\ parsedAll = <<Obj(<<Pair("a", Num(1))>>)>>
    /\ tb.array_started
    /\ tb.buffer = ""

\* The array was opened and has been closed by its ']'.
ArrayClosed == ~NoBracket(fed) /\ ~tb.array_started

\* C26: once the array has been closed, whatever is fed is ignored: no later
\* call of feed returns a value, whatever the deltas hold (another '['
\* included).
C26_IgnoredAfterClosure ==
    [][(Handles /\ ArrayClosed) => parsedAll' = parsedAll]_vars

\* C27: feeding an empty delta returns no value and leaves the pending text,
\* the array flag and the saw-content flag as they were; the saw-content flag
\* is false at first, true after the first delta that is not empty, and
\* never false again.
C27_EmptyDelta ==
    /\ [](saw_content(tb) <=> fed # "")
    /\ [][/\ (Handles /\ last'[1] = "") => (tb' = tb /\ parsedAll' = parsedAll)
          /\ (Handles /\ last'[1] # "") => saw_content(tb')
          /\ saw_content(tb) => saw_content(tb')]_vars

\* C27 witness: an empty delta was fed to a buffer with an open array and
\* the front of an object as pending text.
C27_Witness ==
    /\ type = "deltas"
    /\ last = <<"", 0>>
    /\ fed = "ok: [{\"a\""
    /\ tb = [buffer |-> "{\"a\"", array_started |-> TRUE, saw_chunk |-> TRUE]
    /\ parsedAll = <<>>

(***************************************************************************)
(* Content extraction (specification SpecContent): a fresh controller      *)
(* handles the lines of up to MaxExtractions events whose choices, delta   *)
(* and content members are missing, null, empty or filled.  last is        *)
(* <<line, turn>> as in the traced runs.                                   *)
(***************************************************************************)
\* Largest number of events handled in SpecContent.
MaxExtractions == 2

\* A member that may be missing: <<>> stands for the missing key.
OptPair(key, v) == IF v = <<>> THEN <<>> ELSE <<Pair(key, v[1])>>

ContentValues == { <<>>, <<Null>>, <<Str("")>>, <<Str("x")>>, <<Str("[{\"a\":1}]")>> }

DeltaValues ==
    { <<>>, <<Null>>, <<EmptyDict>> }
    \cup { <<Obj(OptPair("role", r) \o OptPair("content", c))>> :
              r \in { <<>>, <<Str("assistant")>> }, c \in ContentValues }

ChoiceValues == { Obj(OptPair("delta", d)) : d \in DeltaValues }

\* A second choice, which carries content of its own.
OtherChoice == Obj(<<Pair("delta", Obj(<<Pair("content", Str("z"))>>))>>)

ChoicesValues ==
    { <<>>, <<Null>>, <<Arr(<<>>)>> }
    \cup { <<Arr(<<c>>)>> : c \in ChoiceValues }
    \cup { <<Arr(<<c, OtherChoice>>)>> : c \in ChoiceValues }

\* {"id": "e", "choices": ...}
ExtractionEvents ==
    { Obj(<<Pair("id", Str("e"))>> \o OptPair("choices", ch)) : ch \in ChoicesValues }

InitContent ==
    /\ type = "http"
    /\ rest = <<>>
    /\ cancel = FALSE
    /\ closes = 0
    /\ synth = FALSE
    /\ tb = NewTokenBuffer
    /\ usage_data = EmptyDict
    /\ raw_chunks = <<>>
    /\ stream_finished = FALSE
    /\ final_yielded = FALSE
    /\ pending = <<>>
    /\ out = <<>>
    /\ pc = "loop"
    /\ how = "run"
    /\ fed = ""
    /\ parsedAll = <<>>
    /\ postUsage = <<>>
    /\ unread = <<>>
    /\ anyRaw = FALSE
    /\ cancelAt = <<>>
    /\ last = <<>>
    /\ ProviderIdle

\* The loop body of stream() for the line of one of the events.
ContentLine ==
    /\ pc = "loop"
    /\ Len(raw_chunks) < MaxExtractions
    /\ \E e \in ExtractionEvents :
       \E line \in {DATA_PREFIX \o json_dumps(e)} :
          /\ ProcessLine(line)
          /\ last' = Handled(line)
    /\ anyRaw' = TRUE
    /\ UNCHANGED <<prov, type, rest, cancel, synth, cancelAt>>

NextContent ==
    \/ ContentLine
    \/ EmitRecord

SpecContent == InitContent /\ [][NextContent]_vars

\* The content the event carries: <<c>> when the event has a non-empty
\* choices list whose first choice has a non-empty delta with a non-empty
\* content string c, <<>> in every other case.
CarriedContent(event) ==
    IF /\ HasKey(event, "choices")
       /\ Get(event, "choices").t = "arr"
       /\ Len(Get(event, "choices").kids) > 0
       /\ Get(event, "choices").kids[1].t = "obj"
       /\ HasKey(Get(event, "choices").kids[1], "delta")
       /\ Get(Get(event, "choices").kids[1], "delta").t = "obj"
       /\ Len(Get(Get(event, "choices").kids[1], "delta").kids) > 0
       /\ HasKey(Get(Get(event, "choices").kids[1], "delta"), "content")
       /\ Get(Get(Get(event, "choices").kids[1], "delta"), "content").t = "str"
       /\ Get(Get(Get(event, "choices").kids[1], "delta"), "content").s # ""
    THEN <<Get(Get(Get(event, "choices").kids[1], "delta"), "content")>>
    ELSE <<>>

\* C28: for the event of every line handled, content_from_event returns the
\* content string the event carries and returns no content in every other
\* case; the text fed to the buffer grows by exactly that string, and when no
\* content is returned the buffer is left alone, no record is emitted and no
\* error arises.
C28_ContentExtraction ==
    [][Handles =>
          \A event \in {Last(raw_chunks')} :
          \A c \in {CarriedContent(event)} :
              /\ content_from_event(event) = [raises |-> FALSE, content |-> c]
              /\ c # <<>> => fed' = fed \o c[1].s
              /\ c = <<>> => UNCHANGED <<tb, fed, parsedAll, pending, out, pc, how>>]_vars

\* C28 witness: an event whose first choice has an empty content string and
\* whose second choice carries content was handled after an event whose
\* content was fed: only the first event's content reached the buffer.
C28_Witness ==
    /\ Len(raw_chunks) = 2
    /\ CarriedContent(raw_chunks[1]) = <<Str("x")>>
    /\ Get(raw_chunks[2], "choices") =
          Arr(<<Obj(<<Pair("delta", Obj(<<Pair("content", Str(""))>>))>>), OtherChoice>>)
    /\ fed = "x"
    /\ pc = "loop"

(***************************************************************************)
(* Payloads of any JSON type (specification SpecPayloads): a fresh         *)
(* controller handles lines whose payload is the terminal marker, an       *)
(* event, an empty value or a value that is no object, until its log holds *)
(* MaxPayloads entries.  last is <<line, turn>> as in the traced runs.     *)
(***************************************************************************)
\* Largest number of log entries in SpecPayloads.
MaxPayloads == 2

\* Empty values of every JSON type.
EmptyPayloads == { EmptyDict, Null, Num(0), JFalse, Str(""), Arr(<<>>) }

\* Values that are not empty and no object.
NonObjectPayloads ==
    { Num(7), JTrue, Str("x"), Str("usage"), Arr(<<Num(1)>>), Arr(<<Str("usage")>>) }

\* Events: one with usage, one with content.
EventPayloads == { UsageEvent(7), ContentEvent(Str("[{\"a\":1}]"), FALSE) }

PayloadLines ==
    { DATA_PREFIX \o DoneToken }
    \cup { DATA_PREFIX \o json_dumps(v) :
              v \in EmptyPayloads \cup NonObjectPayloads \cup EventPayloads }

\* The loop body of stream() for one of the lines.
PayloadLine ==
    /\ pc = "loop"
    /\ Len(raw_chunks) < MaxPayloads
    /\ \E line \in PayloadLines :
          /\ ProcessLine(line)
          /\ last' = Handled(line)
    /\ anyRaw' = TRUE
    /\ UNCHANGED <<prov, type, rest, cancel, synth, cancelAt>>

NextPayloads ==
    \/ PayloadLine
    \/ EmitRecord
    \/ TransportExhausted

SpecPayloads == InitContent /\ [][NextPayloads]_vars

\* The value is not empty in Python's sense: not {}, [], "", 0, false, null.
NonEmptyValue(v) ==
    /\ v.t \notin {"null", "false"}
    /\ v.t = "num" => v.n # 0
    /\ v.t = "str" => v.s # ""
    /\ v.t \in {"arr", "obj"} => Len(v.kids) > 0

\* C31: handling a `data: ` line whose payload is valid JSON, not empty and
\* not an object appends the value to the raw-event log and ends the stream
\* through the error path: the one record the step adds is the
\* error-carrying terminal record, with the log that ends with the value,
\* and no step follows once the stream is over (no later line is processed).
C31_NonObjectPayload ==
    [][/\ pc # "done"
       /\ Handles =>
             \A v \in {DecodedFrom(last'[1])} :
                 (v # <<>> /\ NonEmptyValue(v[1]) /\ v[1].t # "obj") =>
                     /\ raw_chunks' = Append(raw_chunks, v[1])
                     /\ Len(out') = Len(out) + 1
                     /\ SubSeq(out', 1, Len(out)) = out
                     /\ Last(out').finished
                     /\ Last(out').data = <<>>
                     /\ Last(out').error # <<>>
                     /\ Last(out').raw_chunks = <<raw_chunks'>>
                     /\ UNCHANGED <<tb, usage_data>>
                     /\ pc' = "done"]_vars

\* C34: handling a `data: ` line whose payload decodes to an empty value ({},
\* null, 0, false, "" or []) is like handling an ignorable line: the value
\* is not appended to the raw-event log, the usage snapshot and the buffer
\* stay as they are, no record is emitted and the stream does not end.
C34_EmptyPayloadIgnored ==
    [][Handles =>
          \A v \in {DecodedFrom(last'[1])} :
              (v # <<>> /\ ~NonEmptyValue(v[1])) =>
                  /\ UNCHANGED controller
                  /\ pc' # "done"]_vars

\* C34 witness: the payload [] was handled in a stream that had taken a
\* usage snapshot from its one logged event; the controller waits for the
\* next line.
C34_Witness ==
    /\ last # <<>>
    /\ last[1] = "data: []"
    /\ pc = "loop"
    /\ raw_chunks = <<UsageEvent(7)>>
    /\ usage_data = UsageOf(7)
    /\ out = <<>>

\* C31 witness: the payload [1] ended a stream that had emitted a data
\* record; the log of the error record ends with that array.
C31_Witness ==
    /\ pc = "done"
    /\ last # <<>>
    /\ last[1] = "data: [1]"
    /\ Len(out) = 2
    /\ ~out[1].finished
    /\ Last(out).error # <<>>
    /\ Last(raw_chunks) = Arr(<<Num(1)>>)
    /\ Last(out).raw_chunks = <<raw_chunks>>

(***************************************************************************)
(* Further properties of _TokenBuffer.feed (specification SpecDeltas).     *)
(***************************************************************************)
\* The text starts (after whitespace) with a character that begins no JSON
\* value and does not close the array: whatever is appended, no value can be
\* decoded at its front.
BlockedFront(text) ==
    /\ LStrip(text) # ""
    /\ Ch(LStrip(text), 1) \notin ({Quote, "{", "[", "]", "n", "t", "f", "-"} \cup Digits)

\* C32: once the array is open and the pending text starts with something
\* that can never become a JSON value (a leading comma, a stray token), every
\* later call of feed returns no value, whatever it is given: the array stays
\* open and the pending text grows by the delta and stays blocked.
C32_HeadOfLineBlocking ==
    [][(Handles /\ tb.array_started /\ BlockedFront(tb.buffer)) =>
          /\ parsedAll' = parsedAll
          /\ tb'.array_started
          /\ tb'.buffer = tb.buffer \o last'[1]
          /\ BlockedFront(tb'.buffer)]_vars

\* C32 witness: the comma after the first element came at the front of a
\* delta; the second element, complete in the pending text, was not returned
\* by that call nor by the next one.
C32_Witness ==
    /\ type = "deltas"
    /\ fed = "[1,2,x]"
    /\ last = <<",x]", 1>>
    /\ parsedAll = <<Num(1)>>
    /\ tb.array_started
    /\ tb.buffer = ",2,x]"

\* C35: no array element is returned twice.  The pending text is always a
\* suffix of the text fed, and every call of feed removes a prefix of the
\* text it holds (the pending text followed by the delta) and returns
\* exactly the values decoded within that prefix: the characters of a
\* returned value are gone before the next decoding attempt, so no later
\* call can return that value again.
C35_ReturnedOnce ==
    /\ [](\E n \in 0..Len(fed) : tb.buffer = From(fed, n + 1))
    /\ [][Handles =>
             \A whole \in {tb.buffer \o last'[1]} :
             \A n \in {Len(whole) - Len(tb'.buffer)} :
                /\ n >= 0
                /\ tb'.buffer = From(whole, n + 1)
                /\ \A removed \in {SubSeq(whole, 1, n)} :
                   \A start_idx \in {Find(removed, "[", 1)} :
                      From(parsedAll', Len(parsedAll) + 1)
                          = IF tb.array_started
                            THEN ElementsWithin(removed, 1, n)
                            ELSE IF start_idx = 0 THEN <<>>
                            ELSE ElementsWithin(removed, start_idx + 1, n)]_vars

\* C35 witness: the second array of the text came in a later delta than the
\* first; the value of the first array was returned by an earlier call and
\* was not returned again by the call that returned the second value.
C35_Witness ==
    /\ type = "deltas"
    /\ fed = "x [1] [2]"
    /\ last = <<" [2]", 0>>
    /\ tb.buffer = ""
    /\ parsedAll = <<Num(1), Num(2)>>

====
